---- MODULE Spec2Model ----
(***************************************************************************)
(* State-machine model of the taskgraph runner (TaskRunner, Task, Logger). *)
(*                                                                         *)
(* JavaScript runs every synchronous segment to completion.  The model     *)
(* keeps the call stack of the synchronous descent of runTask (stack), the *)
(* FIFO queue of promise continuations (microtasks), and lets an I/O       *)
(* completion (a macrotask) fire only when both are empty.  The hops a     *)
(* promise resolution takes through Promise.all and the async wrappers are *)
(* folded into one queue entry per continuation.                           *)
(***************************************************************************)
EXTENDS Integers, Sequences, FiniteSets, TLC

\* ---------------------------------------------------------------- bounds
MaxArgs == 2       \* positional values after the command token
MaxAwaits == 2     \* I/O waits of the run() bodies in one execution

\* ------------------------------------------------- registered task types
Commands == {"build", "compile", "lint", "prepare"}
ArgPool == << "x", "y", "s", "t" >>   \* the positional values a command line is made of
FlagNames == {"help", "minify"}
Absent == "absent"
FlagValues == {Absent, "1"}

NoOverride == [has |-> FALSE, list |-> <<>>]
Override(l) == [has |-> TRUE, list |-> l]
Dep(c, o) == [command |-> c, paramsOverride |-> o]

\* build -> lint
\*       -> compile(['z','w']) -> prepare(['u'])
\*                             -> prepare
getDependencies(c) ==
  CASE c = "build"   -> << Dep("lint", NoOverride), Dep("compile", Override(<<"z", "w">>)) >>
    [] c = "compile" -> << Dep("prepare", Override(<<"u">>)), Dep("prepare", NoOverride) >>
    [] OTHER         -> << >>

getParams(c) ==
  CASE c = "build"   -> << >>
    [] c = "compile" -> << "src", "out" >>
    [] c = "lint"    -> << "target" >>
    [] OTHER         -> << "dir" >>

getFlags(c) == IF c \in {"build", "compile"} THEN {"minify"} ELSE {}

isInternalTask(c) == c = "prepare"

getCommand(c) == c

getTaskLabel(c) == getCommand(c)

\* ------------------------------------------------------------ data types
RunResult == {"Pending", "Success", "Failed"}

EmptyArgs == [args |-> <<>>, named |-> [f \in FlagNames |-> Absent]]

\* What CommandLineParser() can hand to the constructor: the positional
\* list (command token first) and the named flags.
CommandLines ==
  { [args |-> a, named |-> n] :
      a \in {<<>>} \cup { <<c>> \o SubSeq(ArgPool, 1, k) : c \in Commands, k \in 0..MaxArgs },
      n \in [FlagNames -> FlagValues] }

VARIABLES
  tasks,          \* TaskRunner.tasks: the registered commands
  argValues,      \* TaskRunner.argValues
  loggers,        \* TaskRunner.loggers: queue of Logger references (one Logger per task instance)
  taskArgValues,  \* Task.argValues, per task instance
  result,         \* Task.result, per task instance
  spinner,        \* Task.spinner, per task instance: the invocation whose spinner is attached
  tag,            \* Logger.tag, per task instance
  logData,        \* Logger.logData, per task instance
  inv,            \* the runTask activations, keyed by their path from the root
  stack,          \* call stack of the running synchronous segment
  microtasks,     \* FIFO queue of promise continuations
  runOrder,       \* the activations in the order their run() promise resolved
  awaits,         \* I/O waits started so far
  console,        \* what has been printed
  phase,          \* "setup" | "running" | "exited"
  exitStatus,     \* process exit status, -1 while the process lives
  standalone      \* a Task instance driven directly through its public methods

vars == << tasks, argValues, loggers, taskArgValues, result, spinner, tag, logData,
           inv, stack, microtasks, runOrder, awaits, console, phase, exitStatus,
           standalone >>

runnerVars == << tasks, argValues >>
taskVars == << taskArgValues, result, spinner, tag, logData >>

NoPath == << 0 >>

\* no task is driven outside the runner
NoStandalone == [params |-> <<>>, bound |-> FALSE, args |-> <<>>, name |-> "", out |-> ""]

Init ==
  /\ tasks = {}
  /\ argValues \in CommandLines
  /\ loggers = <<>>
  /\ taskArgValues = [c \in Commands |-> EmptyArgs]
  /\ result = [c \in Commands |-> "Pending"]
  /\ spinner = [c \in Commands |-> NoPath]
  /\ tag = [c \in Commands |-> ""]
  /\ logData = [c \in Commands |-> <<>>]
  /\ inv = << >>
  /\ stack = <<>>
  /\ microtasks = <<>>
  /\ runOrder = <<>>
  /\ awaits = 0
  /\ console = <<>>
  /\ phase = "setup"
  /\ exitStatus = -1
  /\ standalone = NoStandalone

\* ------------------------------------------------------------- helpers
Paths == DOMAIN inv
Parent(p) == SubSeq(p, 1, Len(p) - 1)
Top == stack[Len(stack)]
Pop == SubSeq(stack, 1, Len(stack) - 1)

\* mutant: the buffered log entries are printed before the process exits
FatalAfterFlush(title) ==
  LET lines(c) == [i \in 1..Len(logData[c]) |->
                     [kind |-> logData[c][i].type, text |-> logData[c][i].message]]
  IN /\ console' = console \o lines("prepare") \o lines("lint") \o lines("compile")
                      \o lines("build") \o << [kind |-> "fatal", text |-> title] >>
     /\ phase' = "exited"
     /\ exitStatus' = 1

\* process.exit(1) after printErrorMessage(title, ...)
Fatal(title) ==
  /\ console' = Append(console, [kind |-> "fatal", text |-> title])
  /\ phase' = "exited"
  /\ exitStatus' = 1

\* index of name in params, 0-based as params.indexOf(name)
IndexOf(params, name) == (CHOOSE i \in 1..Len(params) : params[i] = name) - 1

\* Task.getParam on the declared params and the bound positional list
GetParamOf(params, args, name) ==
  IF \A i \in 1..Len(params) : params[i] # name THEN "Error: Invalid param name"
  ELSE LET index == IndexOf(params, name) IN
       IF Len(args) < index - 1 THEN "Error: Param not supplied"
       ELSE IF index + 1 <= Len(args) THEN args[index + 1] ELSE "undefined"

\* Task.getParam
getParam(c, name) == GetParamOf(getParams(c), taskArgValues[c].args, name)

\* TaskFlag.required of the declared flags
FlagRequired(c, name) == FALSE

\* Task.getFlag on the bound bag
GetFlagOf(c, bag, name) ==
  IF name \notin getFlags(c) THEN "Error: Invalid flag name"
  ELSE LET value == bag.named[name] IN
       IF FlagRequired(c, name) /\ value = Absent THEN "Error: Flag is required"
       ELSE IF value = Absent THEN "null" ELSE value

\* Task.getFlag
getFlag(c, name) == GetFlagOf(c, taskArgValues[c], name)

\* What run() of task c reads when this.argValues is bag: getParam of every
\* declared param and getFlag of every declared flag.
Reads(c, bag) ==
  [ params |-> [i \in 1..Len(getParams(c)) |-> GetParamOf(getParams(c), bag.args, getParams(c)[i])],
    flags |-> [f \in getFlags(c) |-> GetFlagOf(c, bag, f)] ]

NoReads == [params |-> <<>>, flags |-> <<>>]

\* mutant: the internal marker is not looked at
InvalidCommandUnlessRegistered(c) == c \notin tasks

\* TaskRunner.run line 211
InvalidCommand(c) == c \notin tasks \/ isInternalTask(c)

\* mutant: the lookup result is not tested
InvalidDependencyNever(c) == FALSE

\* runTask line 248
InvalidDependency(c) == c \notin tasks

\* runTask lines 234-240: a new activation with its spinner started.
NewActivation(c, d, dep) ==
  [ task |-> c, depth |-> d, dependencyDefinition |-> dep,
    pc |-> "entered", settled |-> 0,
    spinnerText |-> "Waiting...", spinnerState |-> "spinning",
    taskArgs |-> EmptyArgs, runInvoked |-> FALSE, lastSet |-> "none",
    firstRead |-> NoReads, lastRead |-> NoReads ]

\* mutant: the override list is never applied
TaskArgsIgnoringOverride(dep) ==
  [ args |-> IF argValues.args = <<>> THEN <<>> ELSE Tail(argValues.args),
    named |-> argValues.named ]

\* mutant: the command token is not sliced off
TaskArgsWithCommandToken(dep) ==
  [ args |-> IF dep.has THEN dep.list ELSE argValues.args,
    named |-> argValues.named ]

\* mutant: an overridden dependency starts from an empty bag
TaskArgsDroppingFlags(dep) ==
  [ args |-> IF dep.has THEN dep.list
             ELSE IF argValues.args = <<>> THEN <<>> ELSE Tail(argValues.args),
    named |-> IF dep.has THEN [f \in FlagNames |-> Absent] ELSE argValues.named ]

\* runTask lines 262-268
TaskArgsOf(dep) ==
  [ args |-> IF dep.has THEN dep.list
             ELSE IF argValues.args = <<>> THEN <<>> ELSE Tail(argValues.args),
    named |-> argValues.named ]

\* mutant: off by one in the count check
MissingParamsOffByOne(c, taskArgs) == Len(getParams(c)) > Len(taskArgs.args) + 1

\* runTask line 270
MissingParams(c, taskArgs) == Len(getParams(c)) > Len(taskArgs.args)

\* mutant: the iteration leaves out every second dependency
NextDependencySkipping(i) == i + 2

\* runTask line 245: dependencies.map calls its callback on every element
NextDependency(i) == i + 1

\* mutant: a race instead of a join
AllSettledOnFirst(q, n) == n >= 1

\* mutant: the join waits for one settlement more than there are dependencies
AllSettledOneMore(q, n) == n = Len(getDependencies(inv[q].task)) + 1

\* mutant: the join does not wait for the last dependency
AllSettledButLast(q, n) == n = Len(getDependencies(inv[q].task)) - 1

\* runTask line 244: Promise.all settles when the last of the dependencies has
AllSettled(q, n) == n = Len(getDependencies(inv[q].task))

\* mutant: a logger already in the queue is not pushed again
PushLoggerOnce(ls, c) ==
  IF \E i \in 1..Len(ls) : ls[i] = c THEN ls ELSE Append(ls, c)

\* mutant: the logger is queued before the last element
PushLoggerBeforeLast(ls, c) ==
  IF ls = <<>> THEN << c >>
  ELSE Append(SubSeq(ls, 1, Len(ls) - 1), c) \o << ls[Len(ls)] >>

\* mutant: unshift instead of push
PushLoggerFront(ls, c) == << c >> \o ls

\* runTask line 284
PushLogger(ls, c) == Append(ls, c)

\* mutant: every activation flushes when it completes
CalledFromRunAlways(p) == TRUE

\* The caller that awaits the activation: run() (line 221) for the root,
\* the map callback of the parent (line 257) otherwise.
CalledFromRun(p) == p = <<>>

\* mutant: a Failed result becomes the exit status
ExitCodeFromResults == IF \E c \in Commands : result[c] = "Failed" THEN 1 ELSE 0

\* TaskRunner.run returns normally after the flush: the process ends with 0.
ExitCodeOnCompletion == 0

\* Logger.log
LoggerLog(data, t, type, message) ==
  Append(data, [type |-> type, message |-> << t, message >>])

\* Logger.printLogs, as the lines it prints
PrintLogs(data) == [i \in 1..Len(data) |-> [kind |-> data[i].type, text |-> data[i].message]]

RECURSIVE PrintAll(_)
PrintAll(ls) ==
  IF ls = <<>> THEN <<>> ELSE PrintLogs(logData[Head(ls)]) \o PrintAll(Tail(ls))

\* ------------------------------------------------------------- actions
\* TaskRunner.registerTask
registerTask(c) ==
  /\ phase = "setup"
  /\ tasks' = tasks \cup {getCommand(c)}
  /\ UNCHANGED << standalone, argValues, loggers, taskVars, inv, stack, microtasks, runOrder, awaits,
                  console, phase, exitStatus >>

\* TaskRunner.run up to the call of runTask(task)
run ==
  /\ phase = "setup"
  /\ IF argValues.named["help"] # Absent
       THEN /\ console' = Append(console, [kind |-> "help", text |-> "help"])
            /\ phase' = "exited"
            /\ exitStatus' = 0
            /\ UNCHANGED << inv, stack >>
     ELSE IF argValues.args = <<>>
       THEN Fatal("No command specified.") /\ UNCHANGED << inv, stack >>
     ELSE IF InvalidCommand(argValues.args[1])
       THEN Fatal("Invalid command specified.") /\ UNCHANGED << inv, stack >>
     ELSE /\ inv' = (<<>> :> NewActivation(argValues.args[1], 0, NoOverride))
          /\ stack' = << [path |-> <<>>, next |-> 1] >>
          /\ phase' = "running"
          /\ UNCHANGED << console, exitStatus >>
  /\ UNCHANGED << standalone, runnerVars, loggers, taskVars, microtasks, runOrder, awaits >>

\* One segment of the task's run(): it reads its params and flags, may set
\* its result, logs one entry, and then either awaits I/O or returns.  act,
\* res and bag are the activation, the Task.result fields and this.argValues
\* the segment starts from.
RunSegment(p, act, res, bag, t, r, doAwait, mq) ==
  LET c == act.task IN
  /\ result' = IF r = "none" THEN res ELSE [res EXCEPT ![c] = r]
  /\ logData' = [logData EXCEPT ![c] = LoggerLog(@, t, "info", p)]
  /\ inv' = [inv EXCEPT ![p] =
               [act EXCEPT !.pc = IF doAwait THEN "suspended" ELSE "returned",
                           !.lastSet = IF r = "none" THEN @ ELSE r,
                           !.lastRead = Reads(c, bag)]]
  /\ microtasks' = IF doAwait THEN mq ELSE Append(mq, [kind |-> "afterRun", path |-> p])
  /\ runOrder' = IF doAwait THEN runOrder ELSE Append(runOrder, p)
  /\ awaits' = IF doAwait THEN awaits + 1 ELSE awaits

\* runTask lines 262-282: bind the arguments, validate, initialise the run
\* context and call run() (its first segment runs synchronously).
BindAndRun(p, r, doAwait, mq) ==
  LET c == inv[p].task
      taskArgs == TaskArgsOf(inv[p].dependencyDefinition)
  IN
  IF MissingParams(c, taskArgs)
    THEN /\ Fatal("Missing params")
         /\ inv' = [inv EXCEPT ![p].taskArgs = taskArgs, ![p].pc = "fatal"]
         /\ microtasks' = mq
         /\ UNCHANGED << taskVars, runOrder, awaits >>
    ELSE \* Task.initialiseRunContext
         /\ taskArgValues' = [taskArgValues EXCEPT ![c] = taskArgs]
         /\ spinner' = [spinner EXCEPT ![c] = p]
         /\ tag' = [tag EXCEPT ![c] = getTaskLabel(c)]
         /\ RunSegment(p, [inv[p] EXCEPT !.taskArgs = taskArgs, !.runInvoked = TRUE,
                                         !.spinnerText = "Running...",
                                         !.firstRead = Reads(c, taskArgs)],
                       [result EXCEPT ![c] = "Pending"], taskArgs, getTaskLabel(c),
                       r, doAwait, mq)
         /\ UNCHANGED << console, phase, exitStatus >>

Results == {"none", "Success", "Failed"}

\* runTask lines 245-257: the map callback of the next dependency looks the
\* task up and calls runTask on it.
mapDependency ==
  /\ phase = "running" /\ stack # <<>>
  /\ LET p == Top.path
         i == Top.next
         deps == getDependencies(inv[p].task)
     IN /\ i <= Len(deps)
        /\ IF InvalidDependency(deps[i].command)
             THEN Fatal("Invalid dependency") /\ UNCHANGED << inv, stack >>
             ELSE /\ inv' = (Append(p, i) :>
                               NewActivation(deps[i].command, inv[p].depth + 1,
                                             deps[i].paramsOverride)) @@ inv
                  /\ stack' = Append(Append(Pop, [path |-> p, next |-> NextDependency(i)]),
                                     [path |-> Append(p, i), next |-> 1])
                  /\ UNCHANGED << console, phase, exitStatus >>
  /\ UNCHANGED << standalone, runnerVars, loggers, taskVars, microtasks, runOrder, awaits >>

\* runTask line 244: every dependency is started; await Promise.all(...)
awaitDependencies ==
  /\ phase = "running" /\ stack # <<>>
  /\ LET p == Top.path
         deps == getDependencies(inv[p].task)
     IN /\ Len(deps) > 0 /\ Top.next > Len(deps)
        /\ inv' = [inv EXCEPT ![p].pc = "awaitDeps"]
        /\ stack' = Pop
  /\ UNCHANGED << standalone, runnerVars, loggers, taskVars, microtasks, runOrder, awaits,
                  console, phase, exitStatus >>

\* runTask lines 243, 262-282 for a task without dependencies: no await
\* before run(), so it is called in the caller's synchronous segment.
runLeaf ==
  /\ phase = "running" /\ stack # <<>>
  /\ getDependencies(inv[Top.path].task) = <<>>
  /\ \E r \in Results, doAwait \in BOOLEAN :
       /\ doAwait => awaits < MaxAwaits
       /\ BindAndRun(Top.path, r, doAwait, microtasks)
  /\ stack' = Pop
  /\ UNCHANGED << standalone, runnerVars, loggers >>

\* runTask lines 262-282 as the continuation of await Promise.all(...)
resumeAfterDependencies ==
  /\ phase = "running" /\ stack = <<>> /\ microtasks # <<>>
  /\ Head(microtasks).kind = "afterDeps"
  /\ \E r \in Results, doAwait \in BOOLEAN :
       /\ doAwait => awaits < MaxAwaits
       /\ BindAndRun(Head(microtasks).path, r, doAwait, Tail(microtasks))
  /\ UNCHANGED << standalone, runnerVars, loggers, stack >>

\* The I/O a suspended run() awaits completes and run() goes on.
resumeRun(p) ==
  /\ phase = "running" /\ stack = <<>> /\ microtasks = <<>>
  /\ p \in Paths /\ inv[p].pc = "suspended"
  /\ \E r \in Results, doAwait \in BOOLEAN :
       /\ doAwait => awaits < MaxAwaits
       /\ RunSegment(p, inv[p], result, taskArgValues[inv[p].task], tag[inv[p].task],
                    r, doAwait, microtasks)
  /\ UNCHANGED << standalone, runnerVars, loggers, taskArgValues, spinner, tag, stack,
                  console, phase, exitStatus >>

\* runTask lines 284-297, the continuation of await task.run(), and the
\* settling of the activation's promise towards its caller.
afterRun ==
  /\ phase = "running" /\ stack = <<>> /\ microtasks # <<>>
  /\ Head(microtasks).kind = "afterRun"
  /\ LET p == Head(microtasks).path
         c == inv[p].task
         failed == result[c] = "Failed"
         done == [inv[p] EXCEPT !.pc = "done",
                    !.spinnerText = IF @ = "Running..."
                                      THEN (IF failed THEN "Failed." ELSE "Done.") ELSE @,
                    !.spinnerState = IF failed THEN "failed" ELSE "succeed"]
     IN /\ loggers' = PushLogger(loggers, c)
        /\ IF CalledFromRun(p)
             THEN /\ inv' = [inv EXCEPT ![p] = done]
                  /\ microtasks' = Append(Tail(microtasks), [kind |-> "afterRunTask", path |-> p])
             ELSE LET q == Parent(p)
                      n == inv[q].settled + 1
                  IN /\ inv' = [inv EXCEPT ![p] = done, ![q].settled = n]
                     /\ microtasks' =
                          IF AllSettled(q, n)
                            THEN Append(Tail(microtasks), [kind |-> "afterDeps", path |-> q])
                            ELSE Tail(microtasks)
  /\ UNCHANGED << standalone, runnerVars, taskVars, stack, runOrder, awaits, console, phase, exitStatus >>

\* TaskRunner.run lines 223-226, the continuation of await this.runTask(task);
\* nothing is left to wait for and the process ends.
printLogs ==
  /\ phase = "running" /\ stack = <<>> /\ microtasks # <<>>
  /\ Head(microtasks).kind = "afterRunTask"
  /\ console' = (Append(console, [kind |-> "blank", text |-> ""])) \o PrintAll(loggers)
  /\ microtasks' = Tail(microtasks)
  /\ phase' = "exited"
  /\ exitStatus' = ExitCodeOnCompletion
  /\ UNCHANGED << standalone, runnerVars, loggers, taskVars, inv, stack, runOrder, awaits >>

Next ==
  \/ \E c \in Commands : registerTask(c)
  \/ run
  \/ mapDependency
  \/ awaitDependencies
  \/ runLeaf
  \/ resumeAfterDependencies
  \/ \E p \in Paths : resumeRun(p)
  \/ afterRun
  \/ printLogs

Spec == Init /\ [][Next]_vars

\* The event loop runs every ready continuation, and every awaited I/O
\* completes: a step that stays possible is eventually taken.
SpecFair == Spec /\ WF_vars(Next)

\* ------------------------------------------------------- claim helpers
Deps(p) == getDependencies(inv[p].task)
Child(p, i) == Append(p, i)
Finished(p) == p \in Paths /\ inv[p].pc = "done"
\* run() of activation p is called in this step
RunStarts(p) == ~inv[p].runInvoked /\ inv'[p].runInvoked
\* the positional values after the command token
CommandLinePositionals == IF argValues.args = <<>> THEN <<>> ELSE Tail(argValues.args)

\* C1: AND-join. An activation whose task declares dependencies has its
\* run() called only when every one of its dependency activations exists and
\* has completed, whatever result the dependency ended with.
C1_AndJoin ==
  \A p \in Paths :
    inv[p].runInvoked => \A i \in 1..Len(Deps(p)) : Finished(Child(p, i))

\* a parent is in run() although one of its dependencies ended Failed
C1_Witness ==
  \E p \in Paths :
    /\ inv[p].runInvoked /\ Len(Deps(p)) > 1
    /\ \E i, j \in 1..Len(Deps(p)) :
         /\ Finished(Child(p, i)) /\ inv[Child(p, i)].spinnerState = "failed"
         /\ Finished(Child(p, j)) /\ inv[Child(p, j)].spinnerState = "succeed"

\* C2: Missing-argument law. An activation (root or dependency) whose
\* scoped positional list is shorter than its task's params never has run()
\* called; once it gets past waiting for its dependencies, it has raised the
\* fatal "Missing params" and the process has ended with status 1; and that
\* fatal is raised for no other activation.
ScopedPositionals(p) ==
  IF inv[p].dependencyDefinition.has THEN inv[p].dependencyDefinition.list
  ELSE CommandLinePositionals

TooFewArgs(p) == Len(ScopedPositionals(p)) < Len(getParams(inv[p].task))

C2_MissingArgumentLaw ==
  /\ \A p \in Paths :
       TooFewArgs(p) =>
         /\ ~inv[p].runInvoked
         /\ inv[p].pc \in {"entered", "awaitDeps", "fatal"}
         /\ inv[p].pc = "fatal" =>
              /\ phase = "exited" /\ exitStatus = 1
              /\ console[Len(console)] = [kind |-> "fatal", text |-> "Missing params"]
  /\ \A p \in Paths : inv[p].pc = "fatal" => TooFewArgs(p)

\* a dependency raised Missing params after a sibling had run
C2_Witness ==
  \E p \in Paths :
    /\ p # <<>> /\ TooFewArgs(p) /\ inv[p].pc = "fatal"
    /\ exitStatus = 1
    /\ \E q \in Paths : q # p /\ inv[q].runInvoked

\* C3: Argument override law. When run() of a dependency activation declared
\* with a param override list starts, the positional arguments bound to its
\* task are exactly that list.
C3_OverrideLaw ==
  [][ \A p \in Paths :
        (RunStarts(p) /\ inv[p].dependencyDefinition.has)
          => taskArgValues'[inv[p].task].args = inv[p].dependencyDefinition.list ]_vars

\* an overridden dependency at depth 2 runs while the command line carries
\* other positionals
C3_Witness ==
  \E p \in Paths :
    /\ Len(p) = 2 /\ inv[p].runInvoked /\ inv[p].dependencyDefinition.has
    /\ inv[p].taskArgs.args = <<"u">>
    /\ CommandLinePositionals = <<"x", "y">>

\* C4 as stated: a dependency declared without an override list is bound to
\* the scoped positional values of the activation that declared it.
C4_PassThroughFromParent ==
  \A p \in Paths :
    (inv[p].runInvoked /\ ~inv[p].dependencyDefinition.has) =>
      inv[p].taskArgs.args =
        IF p = <<>> THEN CommandLinePositionals ELSE ScopedPositionals(Parent(p))

\* C4 amended: when run() of an activation declared without an override list
\* starts, the positional arguments bound to its task are the command-line
\* positionals after the command token, at every depth; an override list of
\* the declaring activation is not passed on.
C4_PassThroughFromCommandLine ==
  [][ \A p \in Paths :
        (RunStarts(p) /\ ~inv[p].dependencyDefinition.has)
          => /\ taskArgValues'[inv[p].task].args = CommandLinePositionals
             /\ inv'[p].taskArgs.args = CommandLinePositionals ]_vars

\* a dependency without override runs under a parent invoked with an override
C4_Witness ==
  \E p \in Paths :
    /\ Len(p) = 2 /\ inv[p].runInvoked /\ ~inv[p].dependencyDefinition.has
    /\ inv[Parent(p)].dependencyDefinition.has
    /\ inv[p].taskArgs.args = <<"x", "y">>

\* C5: Flags are global. Every activation that runs is bound to exactly the
\* named flags of the command line, with or without a param override.
C5_FlagsGlobal ==
  \A p \in Paths :
    inv[p].runInvoked =>
      /\ inv[p].taskArgs.named = argValues.named
      /\ taskArgValues[inv[p].task].named = argValues.named

\* an overridden dependency and the root both ran with --minify set
C5_Witness ==
  /\ argValues.named["minify"] = "1"
  /\ <<>> \in Paths /\ inv[<<>>].runInvoked
  /\ \E p \in Paths : inv[p].runInvoked /\ inv[p].dependencyDefinition.has

\* C6: Log queue order. The queue holds one logger per completed activation,
\* in the order in which their run() completed, none lost; the flush prints
\* the loggers' buffers in queue order.
RECURSIVE C6_BuffersInOrder(_)
C6_BuffersInOrder(ls) ==
  IF ls = <<>> THEN <<>>
  ELSE [i \in 1..Len(logData[Head(ls)]) |-> logData[Head(ls)][i].message]
         \o C6_BuffersInOrder(Tail(ls))

Flushed == \E i \in 1..Len(console) : console[i].kind = "blank"

C6_LogQueueOrder ==
  /\ Len(loggers) <= Len(runOrder)
  /\ \A i \in 1..Len(runOrder) :
       /\ i <= Len(loggers) <=> inv[runOrder[i]].pc = "done"
       /\ i <= Len(loggers) => loggers[i] = inv[runOrder[i]].task
  /\ Len(loggers) = Cardinality({p \in Paths : inv[p].pc = "done"})
  /\ Flushed =>
       [i \in 1..(Len(console) - 1) |-> console[i + 1].text] = C6_BuffersInOrder(loggers)

\* flushed after the later-declared sibling completed first
C6_Witness ==
  /\ Flushed /\ Len(loggers) = 3
  /\ runOrder[1] = <<2>> /\ runOrder[2] = <<1>>

\* C7: Deferred flush. A buffered log entry is printed only when the root
\* and every transitive dependency activation have completed.
TreeComplete ==
  /\ <<>> \in Paths
  /\ \A p \in Paths : \A i \in 1..Len(Deps(p)) : Child(p, i) \in Paths

LogPrinted == \E i \in 1..Len(console) : console[i].kind \in {"info", "warn", "error"}

C7_DeferredFlush ==
  LogPrinted => TreeComplete /\ \A p \in Paths : inv[p].pc = "done"

\* the entries of a five-activation tree are printed
C7_Witness == LogPrinted /\ Cardinality(Paths) = 5

\* C8: Siblings are not serialized. When a dependency activation completes,
\* or its suspended run() finishes, every sibling has already been started.
C8_SiblingsStarted(p) ==
  \A j \in 1..Len(Deps(Parent(p))) : Child(Parent(p), j) \in Paths

C8_SiblingsNotSerialized ==
  /\ [](\A p \in Paths : (p # <<>> /\ inv[p].pc = "done") => C8_SiblingsStarted(p))
  /\ [][ \A p \in Paths :
           (p # <<>> /\ inv[p].pc = "suspended" /\ inv'[p].pc = "returned")
             => C8_SiblingsStarted(p) ]_vars

\* the later-declared sibling has completed while the earlier-declared one
\* is still suspended in run()
C8_Witness ==
  \E p \in Paths : \E i, j \in 1..Len(Deps(p)) :
    /\ i < j
    /\ Child(p, i) \in Paths /\ inv[Child(p, i)].pc = "suspended"
    /\ Finished(Child(p, j))

\* the opposite order
C8_DeclaredOrderReachable ==
  \E p \in Paths : \E i, j \in 1..Len(Deps(p)) :
    /\ i < j
    /\ Child(p, j) \in Paths /\ inv[Child(p, j)].pc = "suspended"
    /\ Finished(Child(p, i))

\* C9: Task-reported failure never escalates. When the command line and the
\* registry give no fatal condition, no fatal error is raised whatever
\* results the tasks set, and the process ends only with every activation of
\* the tree run, the logs flushed and exit status 0.
RECURSIVE C9_TreeRuns(_, _)
C9_TreeRuns(c, dep) ==
  /\ c \in tasks
  /\ Len(getParams(c)) <= Len(IF dep.has THEN dep.list ELSE CommandLinePositionals)
  /\ \A i \in 1..Len(getDependencies(c)) :
       C9_TreeRuns(getDependencies(c)[i].command, getDependencies(c)[i].paramsOverride)

C9_NoFatalCondition ==
  /\ argValues.named["help"] = Absent
  /\ argValues.args # <<>>
  /\ ~isInternalTask(argValues.args[1])
  /\ C9_TreeRuns(argValues.args[1], NoOverride)

C9_FailureNeverEscalates ==
  (phase # "setup" /\ C9_NoFatalCondition) =>
    /\ exitStatus # 1
    /\ \A i \in 1..Len(console) : console[i].kind # "fatal"
    /\ phase = "exited" =>
         /\ exitStatus = 0
         /\ TreeComplete
         /\ \A p \in Paths : inv[p].runInvoked /\ inv[p].pc = "done"
         /\ Flushed

\* the process ended with 0 although a dependency and the root set Failed
C9_Witness ==
  /\ phase = "exited" /\ exitStatus = 0 /\ Flushed
  /\ Cardinality(Paths) = 5
  /\ inv[<<>>].lastSet = "Failed" /\ inv[<<>>].spinnerState = "failed"
  /\ inv[<<1>>].lastSet = "Failed" /\ inv[<<1>>].spinnerState = "failed"
  /\ inv[<<2>>].spinnerState = "succeed"

\* C10: Terminal state reflects the activation's own outcome. A completed
\* activation is marked failed exactly when the last result its own run()
\* set is Failed.
C10_TerminalStateOwnOutcome ==
  \A p \in Paths :
    inv[p].pc = "done" => (inv[p].spinnerState = "failed" <=> inv[p].lastSet = "Failed")

\* q is p or an ancestor of p
IsPrefix(q, p) == Len(q) <= Len(p) /\ SubSeq(p, 1, Len(q)) = q
LastPrinted == console[Len(console)]

\* C11: Invalid dependency is fatal and lazily detected. Registration is
\* never refused; an activation that declares an unregistered dependency
\* never gets past starting its dependencies, neither it nor any of its
\* ancestors has run() called, and the process ends only with status 1.
HasInvalidDependency(p) == \E i \in 1..Len(Deps(p)) : Deps(p)[i].command \notin tasks

C11_InvalidDependencyFatal ==
  /\ phase = "setup" => \A c \in Commands : ENABLED registerTask(c)
  /\ \A p \in Paths :
       HasInvalidDependency(p) =>
         /\ inv[p].pc = "entered"
         /\ \A q \in Paths : IsPrefix(q, p) => ~inv[q].runInvoked
         /\ phase = "exited" => exitStatus = 1
  /\ (console # <<>> /\ LastPrinted.text = "Invalid dependency") =>
       /\ phase = "exited" /\ exitStatus = 1
       /\ \E p \in Paths : HasInvalidDependency(p)

\* a dependency at depth 1 declares an unregistered command; its sibling had
\* already run when the process ended
C11_Witness ==
  /\ phase = "exited" /\ exitStatus = 1 /\ LastPrinted.text = "Invalid dependency"
  /\ \E p \in Paths : p # <<>> /\ HasInvalidDependency(p)
  /\ \E q \in Paths : inv[q].runInvoked

\* C12: Root command gate. A root command naming an internal task is
\* refused exactly like an unregistered one ("Invalid command specified.",
\* status 1, no activation at all); as a dependency the internal task gets
\* its activation like any registered task.
C12_RootRefused ==
  /\ argValues.named["help"] = Absent
  /\ argValues.args # <<>>
  /\ (argValues.args[1] \notin tasks \/ isInternalTask(argValues.args[1]))

C12_RootCommandGate ==
  /\ (phase # "setup" /\ C12_RootRefused) =>
       /\ phase = "exited" /\ exitStatus = 1
       /\ console = << [kind |-> "fatal", text |-> "Invalid command specified."] >>
       /\ Paths = {} /\ loggers = <<>>
  /\ \A p \in Paths :
       /\ p = <<>> => ~isInternalTask(inv[p].task)
       /\ inv[p].pc # "entered" =>
            \A i \in 1..Len(Deps(p)) :
              Child(p, i) \in Paths /\ inv[Child(p, i)].task = Deps(p)[i].command

\* the registered internal task was named as the root command and refused
C12_Witness ==
  /\ phase = "exited" /\ argValues.args # <<>>
  /\ argValues.args[1] \in tasks /\ isInternalTask(argValues.args[1])
  /\ argValues.named["help"] = Absent

\* the internal task ran to completion as a dependency
C12_InternalDependencyRuns ==
  \E p \in Paths : p # <<>> /\ isInternalTask(inv[p].task) /\ inv[p].pc = "done"

\* C13 as stated: all reads of a param or flag made during one activation's
\* run() return the same value.
C13_StableReads ==
  \A p \in Paths : inv[p].runInvoked => inv[p].lastRead = inv[p].firstRead

\* C14 as stated: the argument bag bound to an activation is not changed by
\* another activation: while the activation has not completed, its task
\* still holds the bag it was bound to.
C14_ExclusiveArgumentBag ==
  \A p \in Paths :
    (inv[p].runInvoked /\ inv[p].pc # "done") =>
      taskArgValues[inv[p].task] = inv[p].taskArgs

\* the same, for the activations of tasks that are invoked once in the tree
C14_ExclusiveAmongDistinctTasks ==
  \A p \in Paths :
    (inv[p].runInvoked /\ inv[p].pc # "done"
       /\ \A q \in Paths : inv[q].task = inv[p].task => q = p) =>
      taskArgValues[inv[p].task] = inv[p].taskArgs

\* C16: Termination. With every referenced command registered and enough
\* positional arguments everywhere, the root activation eventually
\* completes and the deferred logs are flushed; and while the run() of a
\* dependency activation has not returned, no ancestor of it has had run()
\* called and nothing has been flushed.
C16_RunNotReturned(p) == inv[p].pc \notin {"returned", "done"}

C16_StalledByDependency ==
  \A p \in Paths :
    (p # <<>> /\ C16_RunNotReturned(p)) =>
      /\ ~Flushed
      /\ \A q \in Paths : (IsPrefix(q, p) /\ q # p) => ~inv[q].runInvoked

C16_Termination ==
  /\ []C16_StalledByDependency
  /\ (phase = "running" /\ C9_NoFatalCondition)
       ~> (phase = "exited" /\ exitStatus = 0 /\ Flushed /\ Finished(<<>>))

\* a flushed five-activation tree in which run() awaited I/O on the way
C16_Witness ==
  /\ phase = "exited" /\ Flushed /\ Finished(<<>>)
  /\ Cardinality(Paths) = 5 /\ awaits > 0

\* a dependency is suspended in run() while its parent waits for it
C16_SuspendedDependency ==
  \E p \in Paths : p # <<>> /\ inv[p].pc = "suspended" /\ inv[Parent(p)].pc = "awaitDeps"

\* the number of nodes labelled t in the dependency tree unfolded from c
RECURSIVE C17_Unfolded(_, _), C17_UnfoldedFrom(_, _, _)
C17_Unfolded(c, t) == (IF c = t THEN 1 ELSE 0) + C17_UnfoldedFrom(c, t, 1)
C17_UnfoldedFrom(c, t, i) ==
  IF i > Len(getDependencies(c)) THEN 0
  ELSE C17_Unfolded(getDependencies(c)[i].command, t) + C17_UnfoldedFrom(c, t, i + 1)

\* the counts for every root and task of the registry
C17_Invocations == [c \in Commands |-> [t \in Commands |-> C17_Unfolded(c, t)]]
C17_TreeSize ==
  [c \in Commands |->
     C17_Invocations[c]["build"] + C17_Invocations[c]["compile"]
       + C17_Invocations[c]["lint"] + C17_Invocations[c]["prepare"]]

C17_Queued(t) == Cardinality({ i \in 1..Len(loggers) : loggers[i] = t })
C17_Printed(t) ==
  Cardinality({ i \in 1..Len(console) :
                  console[i].kind = "info" /\ console[i].text[1] = getTaskLabel(t) })

\* C17: No deduplication of shared dependencies. At the flush, a task
\* reachable from the root through k paths has k activations, each of which
\* had run() called on the one task instance, its logger is in the queue k
\* times, the queue is as long as the unfolded dependency tree has nodes,
\* and every buffered entry of the task is printed k times.
C17_NoDeduplication ==
  Flushed =>
    LET root == argValues.args[1] IN
    /\ Len(loggers) = C17_TreeSize[root]
    /\ Cardinality(Paths) = C17_TreeSize[root]
    /\ \A t \in Commands :
         LET k == C17_Invocations[root][t] IN
         /\ Cardinality({ p \in Paths : inv[p].task = t /\ inv[p].runInvoked }) = k
         /\ C17_Queued(t) = k
         /\ C17_Printed(t) = k * Len(logData[t])

\* build is flushed: prepare, reached through two paths, is queued twice
\* and its entries are printed twice
C17_Witness ==
  /\ Flushed /\ argValues.args[1] = "build"
  /\ C17_Queued("prepare") = 2
  /\ Len(logData["prepare"]) >= 2
  /\ C17_Printed("prepare") = 2 * Len(logData["prepare"])

\* two activations of the one prepare instance suspended in run() together
C17_Overlapping ==
  \E p, q \in Paths :
    /\ p # q /\ inv[p].task = inv[q].task
    /\ inv[p].pc = "suspended" /\ inv[q].pc = "suspended"

\* C18: Late parameter validation. An activation that failed the param-count
\* check has its whole subtree of dependency activations started, and every
\* one of them has had run() called and has completed; for the root that is
\* the whole rest of the tree.
C18_SubtreeRan(p) ==
  \A q \in Paths :
    IsPrefix(p, q) =>
      /\ \A i \in 1..Len(Deps(q)) : Child(q, i) \in Paths
      /\ q # p => (inv[q].runInvoked /\ inv[q].pc = "done")

C18_LateParamValidation ==
  \A p \in Paths :
    inv[p].pc = "fatal" =>
      /\ console # <<>> /\ LastPrinted.text = "Missing params"
      /\ ~inv[p].runInvoked
      /\ C18_SubtreeRan(p)

\* root compile with one positional argument short: both prepare activations
\* have run and completed when the count check of compile fails
C18_Witness ==
  /\ <<>> \in Paths /\ inv[<<>>].pc = "fatal" /\ inv[<<>>].task = "compile"
  /\ Finished(<<1>>) /\ Finished(<<2>>)
  /\ inv[<<1>>].runInvoked /\ inv[<<2>>].runInvoked
  /\ exitStatus = 1

\* C19: Post-order of the log queue. The queue holds one logger per
\* completed activation, in completion order; every dependency activation
\* below a queued activation is queued before it, and at the flush the last
\* element is the root task's logger.
C19_PostOrder ==
  /\ \A i, j \in 1..Len(runOrder) : runOrder[i] = runOrder[j] => i = j
  /\ \A i \in 1..Len(loggers) :
       /\ i <= Len(runOrder) /\ loggers[i] = inv[runOrder[i]].task
       /\ \A k \in 1..Len(Deps(runOrder[i])) :
            \E j \in 1..(i - 1) : runOrder[j] = Child(runOrder[i], k)
  /\ Flushed =>
       /\ loggers # <<>>
       /\ runOrder[Len(loggers)] = <<>>
       /\ loggers[Len(loggers)] = argValues.args[1]

\* build is flushed with lint queued between the two prepare activations:
\* the queue is a post-order, not the declaration order
C19_Witness ==
  /\ Flushed /\ Len(loggers) = 5
  /\ loggers = << "prepare", "lint", "prepare", "compile", "build" >>

\* C20: Fatal exit discards deferred logs and in-flight siblings. When the
\* process has ended with a fatal condition, the only thing printed is the
\* error message: no buffered log entry, of completed activations or others,
\* is printed; and no step follows, so an activation suspended in run() at
\* that moment never completes.
C20_FatalTitles == {"No command specified.", "Invalid command specified.",
                    "Invalid dependency", "Missing params"}

C20_OnlyTheErrorPrinted ==
  exitStatus = 1 =>
    /\ phase = "exited"
    /\ ~LogPrinted /\ ~Flushed
    /\ Len(console) = 1
    /\ console[1].kind = "fatal" /\ console[1].text \in C20_FatalTitles

C20_FatalDiscards ==
  /\ []C20_OnlyTheErrorPrinted
  /\ [][exitStatus # 1]_vars

\* an invalid dependency ends the process while a sibling activation is
\* suspended in run() with an entry in its buffer
C20_Witness ==
  /\ exitStatus = 1
  /\ \E p \in Paths :
       /\ inv[p].pc = "suspended"
       /\ logData[inv[p].task] # <<>>
       /\ \E q \in Paths :
            q # p /\ ~IsPrefix(q, p) /\ ~IsPrefix(p, q) /\ HasInvalidDependency(q)

\* missing params of the root end the process after both dependency
\* activations completed and queued their logger
C20_CompletedDiscarded ==
  /\ exitStatus = 1 /\ Len(loggers) = 2
  /\ \A i \in 1..Len(loggers) : logData[loggers[i]] # <<>>

\* ---------------------------------------------------------------------
\* Task.getParam driven directly: a task declaring params, bound by
\* initialiseRunContext to a positional list, then asked for a param.

ParamPool == << "src", "out", "dir", "target" >>
ParamNames == { ParamPool[i] : i \in 1..Len(ParamPool) } \cup { "nope" }

InitGetParam ==
  /\ tasks = {}
  /\ argValues = EmptyArgs
  /\ loggers = <<>>
  /\ taskArgValues = [c \in Commands |-> EmptyArgs]
  /\ result = [c \in Commands |-> "Pending"]
  /\ spinner = [c \in Commands |-> NoPath]
  /\ tag = [c \in Commands |-> ""]
  /\ logData = [c \in Commands |-> <<>>]
  /\ inv = << >>
  /\ stack = <<>>
  /\ microtasks = <<>>
  /\ runOrder = <<>>
  /\ awaits = 0
  /\ console = <<>>
  /\ phase = "setup"
  /\ exitStatus = -1
  /\ \E n \in 0..Len(ParamPool) :
       standalone = [NoStandalone EXCEPT !.params = SubSeq(ParamPool, 1, n)]

programVars == << tasks, argValues, loggers, taskArgValues, result, spinner, tag, logData,
                  inv, stack, microtasks, runOrder, awaits, console, phase, exitStatus >>

\* Task.initialiseRunContext(argValues)
initialiseRunContext ==
  /\ \E k \in 0..Len(ArgPool) :
       standalone' = [standalone EXCEPT !.bound = TRUE, !.args = SubSeq(ArgPool, 1, k),
                                        !.name = "", !.out = ""]
  /\ UNCHANGED programVars

\* Task.getParam(name) on the bound task
callGetParam ==
  /\ standalone.bound
  /\ \E name \in ParamNames :
       standalone' = [standalone EXCEPT !.name = name,
                        !.out = GetParamOf(standalone.params, standalone.args, name)]
  /\ UNCHANGED programVars

NextGetParam ==
  \/ initialiseRunContext
  \/ callGetParam

SpecGetParam == InitGetParam /\ [][NextGetParam]_vars

\* C15 as stated: getParam fails with InvalidParam for an undeclared name,
\* fails with MissingParam for a name declared at an index i >= L, and
\* otherwise returns the positional value at index i.
C15_GetParamContract ==
  (standalone.bound /\ standalone.name # "") =>
    LET params == standalone.params
        args == standalone.args
        name == standalone.name
        L == Len(args)
    IN IF \A i \in 1..Len(params) : params[i] # name
       THEN standalone.out = "Error: Invalid param name"
       ELSE LET i == IndexOf(params, name) IN
            IF i >= L THEN standalone.out = "Error: Param not supplied"
            ELSE standalone.out = args[i + 1]

\* what the code does instead: MissingParam is raised only when i >= L + 2
C15_MissingOnlyTwoPastEnd ==
  (standalone.bound /\ standalone.name # ""
     /\ \E i \in 1..Len(standalone.params) : standalone.params[i] = standalone.name) =>
    LET i == IndexOf(standalone.params, standalone.name)
        L == Len(standalone.args)
    IN /\ (i >= L + 2) <=> (standalone.out = "Error: Param not supplied")
       /\ (i \in {L, L + 1}) <=> (standalone.out = "undefined")
       /\ (i < L) => standalone.out = standalone.args[i + 1]

====
